---------------------------- MODULE Spec2Model ----------------------------
(***************************************************************************)
(* The lexical variant generator of GRAMBLE: the Dictionary Builder        *)
(* (corpora/isiXhosa/dictionary/dictionary_json_maker.py) and the Variant  *)
(* Expander (GRAMBLE/script/one_make_variants.py, only_word_scramble.py).  *)
(*                                                                         *)
(* Python strings are TLA+ strings; a character is a string of length 1.   *)
(* The model's inputs are ASCII: the typographic apostrophe U+2019 that    *)
(* the regular expressions also accept is outside the input alphabet, and  *)
(* no input holds a line feed.                                             *)
(***************************************************************************)
EXTENDS Integers, Sequences, FiniteSets, TLC

VARIABLES
    \* Dictionary Builder: convert_blocks_to_indexed_json
    output,          \* the entry store, in insertion order: <<[key, obj], ...>>
    idx,             \* the next synthetic id number
    last_main_key,   \* Optional[str]: <<>> is None, <<k>> is k
    last_main_head,  \* Optional[str]
    senses_here,     \* the senses parsed from the block just processed
    block,           \* the block just processed
    placed,          \* what the loop body did with it
    blocks_done,     \* number of blocks processed so far
    \* Variant Expander: the per-sentence loop of main()
    script,          \* which script runs
    src,             \* the sentence
    en2xh,           \* lookup index: key -> set of translations
    max_key_len,     \* largest number of tokens in a key
    max_out,         \* the cap (--max)
    toks,            \* tokenize(src)
    segs,            \* segment_choices_en2xh(toks, en2xh, max_key_len)
    variants,        \* list(product_join(segs, max_out))
    pc,              \* position in the per-sentence loop
    \* Dictionary Builder: glue_blocks
    lines,           \* the raw lines of the dictionary text
    blocks           \* glue_blocks(lines)

builderVars == <<output, idx, last_main_key, last_main_head, senses_here,
                 block, placed, blocks_done>>
expanderVars == <<script, src, en2xh, max_key_len, max_out, toks, segs,
                  variants, pc>>
glueVars == <<lines, blocks>>

vars == <<output, idx, last_main_key, last_main_head, senses_here, block,
          placed, blocks_done, script, src, en2xh, max_key_len, max_out,
          toks, segs, variants, pc,
          lines, blocks>>

---------------------------------------------------------------------------
(* Bounds of the model *)

MaxBlocks == 3
MaxPieces == 3
MaxSegs == 3
MaxCap == 4
MaxLines == 4
MaxEntries == 3
MaxFragPieces == 3

---------------------------------------------------------------------------
(* Characters and strings *)

Ch(s, i) == SubSeq(s, i, i)

CharsOf(s) == {Ch(s, i) : i \in 1..Len(s)}

Min(a, b) == IF a <= b THEN a ELSE b

LowerStr == "abcdefghijklmnopqrstuvwxyz"
UpperStr == "ABCDEFGHIJKLMNOPQRSTUVWXYZ"
DigitStr == "0123456789"

Lower == CharsOf(LowerStr)
Upper == CharsOf(UpperStr)
Digit == CharsOf(DigitStr)
Letter == Lower \cup Upper

\* \s of the regular expressions, and what str.strip() strips
WhiteSpace == {" ", "\t", "\n", "\r", "\f"}

\* \w of the regular expressions
WordChar == Letter \cup Digit \cup {"_"}

\* the characters in code point order
CodeOrder == "\t\n\f\r !\"'(),-.0123456789:;?ABCDEFGHIJKLMNOPQRSTUVWXYZ_abcdefghijklmnopqrstuvwxyz"

Ord(c) == CHOOSE i \in 1..Len(CodeOrder) : Ch(CodeOrder, i) = c

\* str.lower() on one character
LowerCh(c) ==
    IF c \in Upper
    THEN Ch(LowerStr, CHOOSE i \in 1..26 : Ch(UpperStr, i) = c)
    ELSE c

RECURSIVE lower(_)
lower(s) ==
    IF s = "" THEN ""
    ELSE LowerCh(Ch(s, 1)) \o lower(SubSeq(s, 2, Len(s)))

\* number of leading characters of s that are in set cs
RECURSIVE RunLen(_, _)
RunLen(s, cs) ==
    IF s # "" /\ Ch(s, 1) \in cs
    THEN 1 + RunLen(SubSeq(s, 2, Len(s)), cs)
    ELSE 0

\* number of trailing characters of s that are in set cs
RECURSIVE RunLenEnd(_, _)
RunLenEnd(s, cs) ==
    IF s # "" /\ Ch(s, Len(s)) \in cs
    THEN 1 + RunLenEnd(SubSeq(s, 1, Len(s) - 1), cs)
    ELSE 0

Drop(s, n) == SubSeq(s, n + 1, Len(s))
Take(s, n) == SubSeq(s, 1, n)

\* str.lstrip / rstrip / strip with a set of characters
lstrip(s, cs) == Drop(s, RunLen(s, cs))
rstrip(s, cs) == Take(s, Len(s) - RunLenEnd(s, cs))
strip(s, cs) == rstrip(lstrip(s, cs), cs)

\* a < b for strings, by code point
RECURSIVE StrLess(_, _)
StrLess(a, b) ==
    IF b = "" THEN FALSE
    ELSE IF a = "" THEN TRUE
    ELSE IF Ch(a, 1) # Ch(b, 1) THEN Ord(Ch(a, 1)) < Ord(Ch(b, 1))
    ELSE StrLess(Drop(a, 1), Drop(b, 1))

\* sorted(S) for a set of strings
RECURSIVE sorted(_)
sorted(S) ==
    IF S = {} THEN <<>>
    ELSE LET m == CHOOSE x \in S : \A y \in S \ {x} : StrLess(x, y)
         IN  <<m>> \o sorted(S \ {m})

\* sep.join(parts)
RECURSIVE join(_, _)
join(sep, parts) ==
    IF Len(parts) = 0 THEN ""
    ELSE IF Len(parts) = 1 THEN parts[1]
    ELSE parts[1] \o sep \o join(sep, Tail(parts))

\* s.split(): the maximal runs of non-whitespace characters
RECURSIVE split_ws(_)
split_ws(s) ==
    LET t == lstrip(s, WhiteSpace)
        n == RunLen(t, CharsOf(t) \ WhiteSpace)
    IN  IF t = "" THEN <<>>
        ELSE <<Take(t, n)>> \o split_ws(Drop(t, n))

\* s.split(c) for a one-character separator
RECURSIVE split_on(_, _)
split_on(s, c) ==
    LET n == RunLen(s, CharsOf(s) \ {c})
    IN  IF n = Len(s) THEN <<s>>
        ELSE <<Take(s, n)>> \o split_on(Drop(s, n + 1), c)

\* sub in s
Contains(s, sub) ==
    \E i \in 1..(Len(s) - Len(sub) + 1) : SubSeq(s, i, i + Len(sub) - 1) = sub

\* s.count(c)
RECURSIVE count(_, _)
count(s, c) ==
    IF s = "" THEN 0
    ELSE (IF Ch(s, 1) = c THEN 1 ELSE 0) + count(Drop(s, 1), c)

\* str(n) for n >= 0
RECURSIVE str(_)
str(n) ==
    IF n < 10 THEN Ch(DigitStr, n + 1)
    ELSE str(n \div 10) \o Ch(DigitStr, (n % 10) + 1)

---------------------------------------------------------------------------
(* Variant Expander: tokenizer and key normalisation *)

\* the characters of the first alternative of WORD_RE: [A-Za-z\-']
TokenWordChar == Letter \cup {"-", "'"}

\* WORD_RE.findall(text): runs of word characters, runs of digits, or any
\* other single non-space character
RECURSIVE tokenize(_)
tokenize(text) ==
    IF text = "" THEN <<>>
    ELSE LET c == Ch(text, 1)
             n == IF c \in TokenWordChar THEN RunLen(text, TokenWordChar)
                  ELSE IF c \in Digit THEN RunLen(text, Digit)
                  ELSE 1
         IN  IF c \in WhiteSpace THEN tokenize(Drop(text, 1))
             ELSE <<Take(text, n)>> \o tokenize(Drop(text, n))

is_word(tok) == tok # "" /\ CharsOf(tok) \subseteq TokenWordChar

\* strips leading and trailing characters that are not in [\w'-]
strip_punct(tok) ==
    LET keep == WordChar \cup {"'", "-"}
    IN  strip(tok, CharsOf(tok) \ keep)

\* re.sub(r"\s+", " ", s): each maximal run of whitespace becomes one space
RECURSIVE collapse_ws(_)
collapse_ws(s) ==
    IF s = "" THEN ""
    ELSE IF Ch(s, 1) \in WhiteSpace
         THEN " " \o collapse_ws(lstrip(s, WhiteSpace))
         ELSE Ch(s, 1) \o collapse_ws(Drop(s, 1))

normalize_key(s) == collapse_ws(lower(strip(s, WhiteSpace)))

\* max((len(k.split()) for k in en2xh.keys()), default=1)
MaxKeyLenOf(index) ==
    IF DOMAIN index = {} THEN 1
    ELSE CHOOSE n \in {Len(split_ws(k)) : k \in DOMAIN index} :
             \A k \in DOMAIN index : Len(split_ws(k)) <= n

---------------------------------------------------------------------------
(* Variant Expander: greedy longest-match segmentation *)

\* the words of tokens[i:i+L], stripped and space-joined, as a key
RECURSIVE WordsOf(_)
WordsOf(ts) ==
    IF Len(ts) = 0 THEN <<>>
    ELSE (IF is_word(ts[1]) THEN <<strip_punct(ts[1])>> ELSE <<>>)
         \o WordsOf(Tail(ts))

SpanKey(tokens, i, L) ==
    normalize_key(join(" ", WordsOf(SubSeq(tokens, i, i + L - 1))))

\* the L at which the for loop breaks (it runs from the longest L down), or 0
MatchLen(tokens, index, mkl, i) ==
    LET Ls == {L \in 1..Min(mkl, Len(tokens) - i + 1) :
                   SpanKey(tokens, i, L) \in DOMAIN index}
    IN  IF Ls = {} THEN 0
        ELSE CHOOSE L \in Ls : \A M \in Ls : M <= L

\* line 54: an unknown word passes through as a singleton segment
UnknownNormalized(tok) == <<normalize_key(tok)>>
Unknown(tok) == <<tok>>

\* the while loop from position i (1-based) on
RECURSIVE SegmentFrom(_, _, _, _)
SegmentFrom(tokens, index, mkl, i) ==
    IF i > Len(tokens) THEN <<>>
    ELSE IF ~is_word(tokens[i])
         THEN <<<<tokens[i]>>>> \o SegmentFrom(tokens, index, mkl, i + 1)
    ELSE LET L == MatchLen(tokens, index, mkl, i)
         IN  IF L > 0
             THEN <<sorted(index[SpanKey(tokens, i, L)])>>
                  \o SegmentFrom(tokens, index, mkl, i + L)
             ELSE <<Unknown(tokens[i])>> \o SegmentFrom(tokens, index, mkl, i + 1)

segment_choices_en2xh(tokens, index, mkl) == SegmentFrom(tokens, index, mkl, 1)

---------------------------------------------------------------------------
(* Variant Expander: capped cartesian product *)

InlinePunct == {",", ".", ";", ":", "!", "?"}

\* re.match(r"^[,.;:!?]$", choice): $ also matches before a final line feed
IsInlinePunct(choice) ==
    \/ choice \in InlinePunct
    \/ Len(choice) = 2 /\ Ch(choice, 1) \in InlinePunct /\ Ch(choice, 2) = "\n"

\* re.sub(r"\s+([,.;:!?])", r"\1", s): a whitespace run right before one of
\* the punctuation characters is removed
RECURSIVE PunctCleanup(_)
PunctCleanup(s) ==
    IF s = "" THEN ""
    ELSE LET n == RunLen(s, WhiteSpace)
         IN  IF n = 0 THEN Ch(s, 1) \o PunctCleanup(Drop(s, 1))
             ELSE IF n < Len(s) /\ Ch(s, n + 1) \in InlinePunct
                  THEN PunctCleanup(Drop(s, n))
                  ELSE Take(s, n) \o PunctCleanup(Drop(s, n))

\* lines 68-71: the accumulator after taking a choice
NewAcc(acc, choice) ==
    IF Len(acc) > 0 /\ IsInlinePunct(choice)
    THEN SubSeq(acc, 1, Len(acc) - 1) \o <<acc[Len(acc)] \o choice>>
    ELSE acc \o <<choice>>

\* lines 64-65: the string emitted for a full accumulator
Emit(acc) == PunctCleanup(join(" ", acc))

\* line 62: out_count >= max_out
CapReachedStrict(out_count, cap) == out_count > cap
CapReached(out_count, cap) == out_count >= cap

\* line 67: the j-th choice the for loop takes
ChoiceAtReversed(seg, j) == seg[Len(seg) + 1 - j]
ChoiceAt(seg, j) == seg[j]

\* rec(idx, acc) with the strings emitted so far (out_count = Len(out));
\* RecChoices is the for loop of rec from its j-th choice on
RECURSIVE Rec(_, _, _, _, _), RecChoices(_, _, _, _, _, _)
Rec(segments, cap, i, acc, out) ==
    IF CapReached(Len(out), cap) THEN out
    ELSE IF i = Len(segments) + 1 THEN Append(out, Emit(acc))
    ELSE RecChoices(segments, cap, i, acc, 1, out)

RecChoices(segments, cap, i, acc, j, out) ==
    IF j > Len(segments[i]) THEN out
    ELSE RecChoices(segments, cap, i, acc, j + 1,
             Rec(segments, cap, i + 1,
                 NewAcc(acc, ChoiceAt(segments[i], j)), out))

product_join(segments, cap) == Rec(segments, cap, 1, <<>>, <<>>)

---------------------------------------------------------------------------
(* Variant Expander: the per-sentence loop of the two scripts *)

BuilderIdle ==
    /\ output = <<>>
    /\ idx = 1
    /\ last_main_key = <<>>
    /\ last_main_head = <<>>
    /\ senses_here = <<>>
    /\ block = ""
    /\ placed = "start"
    /\ blocks_done = 0

GlueIdle ==
    /\ lines = <<>>
    /\ blocks = <<>>

\* the pieces sentences are made of, and the sentences of at most n pieces
Pieces == {"ice", "Cream", " ", ",", "(", "7"}

RECURSIVE PieceStrings(_)
PieceStrings(n) ==
    IF n = 0 THEN {""}
    ELSE LET shorter == PieceStrings(n - 1)
         IN  shorter \cup {s \o p : s \in shorter, p \in Pieces}

Sentences == PieceStrings(MaxPieces)

\* lookup indexes as load_dict returns them: every key maps to a non-empty set
IndexNone == <<>>
IndexWords ==
    ("ice" :> {"umkhenkce", "iqhwa"}) @@ ("cream" :> {"ucwambu"})
IndexPhrases ==
    IndexWords @@ ("ice cream" :> {"i-ayisikhrim", "iqhwa"})
Indexes == {IndexNone, IndexWords, IndexPhrases}

Scripts == {"one_make_variants", "only_word_scramble"}

InitExpand ==
    /\ BuilderIdle
    /\ GlueIdle
    /\ script \in Scripts
    /\ src \in Sentences
    /\ en2xh \in Indexes
    /\ max_key_len = MaxKeyLenOf(en2xh)
    /\ max_out \in 0..MaxCap
    /\ toks = <<>>
    /\ segs = <<>>
    /\ variants = <<>>
    /\ pc = "tokenize"

\* only_word_scramble.variants_for_line: a blank line yields no variants
IsBlankLine == script = "only_word_scramble" /\ strip(src, WhiteSpace) = ""

BlankLine ==
    /\ pc = "tokenize"
    /\ IsBlankLine
    /\ variants' = <<>>
    /\ pc' = "done"
    /\ UNCHANGED <<script, src, en2xh, max_key_len, max_out, toks, segs>>
    /\ UNCHANGED <<builderVars, glueVars>>

Tokenize ==
    /\ pc = "tokenize"
    /\ ~IsBlankLine
    /\ toks' = tokenize(IF script = "only_word_scramble"
                        THEN strip(src, WhiteSpace) ELSE src)
    /\ pc' = "segment"
    /\ UNCHANGED <<script, src, en2xh, max_key_len, max_out, segs, variants>>
    /\ UNCHANGED <<builderVars, glueVars>>

Segment ==
    /\ pc = "segment"
    /\ segs' = segment_choices_en2xh(toks, en2xh, max_key_len)
    /\ pc' = "join"
    /\ UNCHANGED <<script, src, en2xh, max_key_len, max_out, toks, variants>>
    /\ UNCHANGED <<builderVars, glueVars>>

Join ==
    /\ pc = "join"
    /\ variants' = product_join(segs, max_out)
    /\ pc' = "done"
    /\ UNCHANGED <<script, src, en2xh, max_key_len, max_out, toks, segs>>
    /\ UNCHANGED <<builderVars, glueVars>>

NextExpand == BlankLine \/ Tokenize \/ Segment \/ Join

SpecExpand == InitExpand /\ [][NextExpand]_vars

---------------------------------------------------------------------------
(* product_join on its own, over arbitrary lists of segments *)

SegPool ==
    {<<"a">>, <<"b", "c">>, <<",">>, <<"x", "y", "z">>, <<"!y">>, <<>>}

RECURSIVE SegListsUpTo(_)
SegListsUpTo(n) ==
    IF n = 0 THEN {<<>>}
    ELSE LET shorter == SegListsUpTo(n - 1)
         IN  shorter \cup {Append(l, g) : l \in shorter, g \in SegPool}

InitJoin ==
    /\ BuilderIdle
    /\ GlueIdle
    /\ script = "product_join"
    /\ src = ""
    /\ en2xh = IndexNone
    /\ max_key_len = 1
    /\ max_out \in 0..MaxCap
    /\ toks = <<>>
    /\ segs \in SegListsUpTo(MaxSegs)
    /\ variants = <<>>
    /\ pc = "join"

NextJoin == Join

SpecJoin == InitJoin /\ [][NextJoin]_vars

---------------------------------------------------------------------------
(* Dictionary Builder: entry headers *)

HeadChar == Letter \cup {"-", "'"}
LowerHeadChar == Lower \cup {"-", "'"}

\* one repetition of (?:[a-z]+\.\s*) at the start of t, whose leading run of
\* lowercase letters has length n: the length of the repetition, or 0
PosGroupLenOf(t, n) ==
    IF n >= 1 /\ n < Len(t) /\ Ch(t, n + 1) = "."
    THEN n + 1 + RunLen(Drop(t, n + 1), WhiteSpace)
    ELSE 0

PosGroupLen(t) == PosGroupLenOf(t, RunLen(t, Lower))

\* the offsets at which the greedy repetitions of the group end, from offset
\* at of t on; g is the length of the first repetition
RECURSIVE PosGroupEnds(_, _)
PosGroupEndsFrom(t, at, g) ==
    IF g = 0 THEN <<>>
    ELSE <<at + g>> \o PosGroupEnds(t, at + g)

PosGroupEnds(t, at) == PosGroupEndsFrom(t, at, PosGroupLen(Drop(t, at)))

NoHead == [ok |-> FALSE]

\* \s*,\s* after a head of length h that is followed by whitespace up to a
HeadPrefixAt(line, h, a) ==
    IF a < Len(line) /\ Ch(line, a + 1) = ","
    THEN [ok |-> TRUE, head |-> Take(line, h),
          at |-> a + 1 + RunLen(Drop(line, a + 1), WhiteSpace)]
    ELSE NoHead

HeadPrefixOf(line, h) ==
    HeadPrefixAt(line, h, h + RunLen(Drop(line, h), WhiteSpace))

\* <head>\s*,\s* at the start of line: the head and the offset after it
HeadPrefix(line, first, others) ==
    IF line = "" \/ Ch(line, 1) \notin first THEN NoHead
    ELSE HeadPrefixOf(line, 1 + RunLen(Drop(line, 1), others))

NoMatch == [matched |-> FALSE]

\* (?P<pos>(?:[a-z]+\.\s*)+)(?P<body>.*)$ after the head prefix hp
StartGroups(line, hp, ends) ==
    IF Len(ends) = 0 \/ "\n" \in CharsOf(Drop(line, ends[Len(ends)]))
    THEN NoMatch
    ELSE [matched |-> TRUE, has_body |-> TRUE, head |-> hp.head,
          pos |-> SubSeq(line, hp.at + 1, ends[Len(ends)]),
          body |-> Drop(line, ends[Len(ends)])]

StartAfter(line, hp) ==
    IF ~hp.ok THEN NoMatch
    ELSE StartGroups(line, hp, PosGroupEnds(line, hp.at))

\* ENTRY_START_UPPER / ENTRY_START_LOWER: head, pos groups, body = the rest
MatchStart(line, first, others) ==
    StartAfter(line, HeadPrefix(line, first, others))

\* (?P<pos>(?:[a-z]+\.\s*)+)\s*$ after the head prefix hp
HeadOnlyGroups(line, hp, ends) ==
    IF Len(ends) = 0 \/ ends[Len(ends)] # Len(line)
    THEN NoMatch
    ELSE [matched |-> TRUE, has_body |-> FALSE, head |-> hp.head,
          pos |-> SubSeq(line, hp.at + 1, ends[Len(ends)]),
          body |-> ""]

HeadOnlyAfter(line, hp) ==
    IF ~hp.ok THEN NoMatch
    ELSE HeadOnlyGroups(line, hp, PosGroupEnds(line, hp.at))

\* ENTRY_HEAD_ONLY_UPPER / ENTRY_HEAD_ONLY_LOWER: nothing after the pos groups
MatchHeadOnly(line, first, others) ==
    HeadOnlyAfter(line, HeadPrefix(line, first, others))

\* for rx in (...): m = rx.match(line); if m: return m
FirstMatched(ms) ==
    IF ms[1].matched THEN ms[1]
    ELSE IF ms[2].matched THEN ms[2]
    ELSE IF ms[3].matched THEN ms[3]
    ELSE ms[4]

\* the four patterns in the order match_entry tries them
match_entry(line) ==
    FirstMatched(<<MatchStart(line, Upper, HeadChar),
                   MatchHeadOnly(line, Upper, HeadChar),
                   MatchStart(line, Lower, LowerHeadChar),
                   MatchHeadOnly(line, Lower, LowerHeadChar)>>)

---------------------------------------------------------------------------
(* Dictionary Builder: part-of-speech normalisation *)

\* POS_SHORT, in insertion order
POS_SHORT == <<
    <<"a.", "a">>, <<"adj.", "a">>,
    <<"adv.", "adv">>,
    <<"n.", "n">>,
    <<"v.", "v">>,
    <<"v. t.", "v t">>, <<"v.t.", "v t">>,
    <<"v. i.", "v i">>, <<"v.i.", "v i">>,
    <<"v. aux.", "v">>,
    <<"prep.", "prep">>, <<"conj.", "conj">>,
    <<"intj.", "intj">>, <<"pron.", "pron">>, <<"pr.", "pron">> >>

\* sorted(POS_SHORT, key=len, reverse=True): the indexes of POS_SHORT, longest
\* key first, equal lengths in insertion order (the sort is stable)
RECURSIVE ByLenDesc(_)
ByLenDesc(I) ==
    IF I = {} THEN <<>>
    ELSE LET m == CHOOSE i \in I : \A j \in I \ {i} :
                      \/ Len(POS_SHORT[i][1]) > Len(POS_SHORT[j][1])
                      \/ Len(POS_SHORT[i][1]) = Len(POS_SHORT[j][1]) /\ i < j
         IN  <<m>> \o ByLenDesc(I \ {m})

PosKeyOrder == ByLenDesc(DOMAIN POS_SHORT)

\* lines 49-57: the short form of the normalised pos string s
PosShort(s) ==
    LET exact == {i \in DOMAIN POS_SHORT : POS_SHORT[i][1] = s}
        inside == {n \in DOMAIN PosKeyOrder :
                       Contains(s, POS_SHORT[PosKeyOrder[n]][1])}
    IN  IF exact # {} THEN POS_SHORT[CHOOSE i \in exact : TRUE][2]
        ELSE IF inside # {}
             THEN POS_SHORT[PosKeyOrder[CHOOSE n \in inside :
                                \A k \in inside : n <= k]][2]
             ELSE s

\* line 58: toks = short.split()
PosSplit(short) == split_ws(short)

\* line 59: return toks if toks else [""]
OrEmptyTag(tks) == IF Len(tks) > 0 THEN tks ELSE <<"">>

pos_tokens_from_raw(pos_raw) ==
    OrEmptyTag(PosSplit(PosShort(collapse_ws(strip(pos_raw, WhiteSpace)))))

---------------------------------------------------------------------------
(* Dictionary Builder: body fragments *)

NoFrag == [ok |-> FALSE]

\* (?P<pos>(?:[a-z]+\.\s*)+)\s*(?P<rest>.+)$ from offset at of t, the greedy
\* repetitions of the group ending at ends.  rest needs one character, so
\* when the groups reach the end of t the last group gives back its final
\* whitespace character or, having none, the last repetition is given up
PosRestOf(t, at, ends) ==
    IF Len(ends) = 0 THEN NoFrag
    ELSE IF ends[Len(ends)] < Len(t)
         THEN [ok |-> TRUE, pos |-> SubSeq(t, at + 1, ends[Len(ends)]),
               rest |-> Drop(t, ends[Len(ends)])]
    ELSE IF Ch(t, Len(t)) \in WhiteSpace
         THEN [ok |-> TRUE, pos |-> SubSeq(t, at + 1, Len(t) - 1),
               rest |-> Ch(t, Len(t))]
    ELSE IF Len(ends) >= 2
         THEN [ok |-> TRUE, pos |-> SubSeq(t, at + 1, ends[Len(ends) - 1]),
               rest |-> Drop(t, ends[Len(ends) - 1])]
    ELSE NoFrag

PosRest(t, at) == PosRestOf(t, at, PosGroupEnds(t, at))

\* \)\s*,\s* after a description of length d, whitespace reaching offset a
ParenDescAt(frag, d, a) ==
    IF d >= 1 /\ d + 1 < Len(frag) /\ a < Len(frag) /\ Ch(frag, a + 1) = ","
    THEN [ok |-> TRUE, desc |-> SubSeq(frag, 2, d + 1),
          at |-> a + 1 + RunLen(Drop(frag, a + 1), WhiteSpace)]
    ELSE NoFrag

ParenDescOf(frag, d) ==
    ParenDescAt(frag, d, d + 2 + RunLen(Drop(frag, d + 2), WhiteSpace))

\* ^\((?P<desc>[^)]+)\)\s*,\s* : the description and the offset after it
ParenDescPrefix(frag) ==
    IF frag = "" \/ Ch(frag, 1) # "(" THEN NoFrag
    ELSE ParenDescOf(frag, RunLen(Drop(frag, 1), CharsOf(frag) \ {")"}))

\* the lazy description: the text before the comma without its trailing
\* whitespace, but at least one character
LazyDesc(before, stripped) ==
    IF stripped = "" THEN Take(before, 1) ELSE stripped

PlainDescOf(frag, d) ==
    IF d >= 1 /\ d < Len(frag)
    THEN [ok |-> TRUE,
          desc |-> LazyDesc(Take(frag, d), rstrip(Take(frag, d), WhiteSpace)),
          at |-> d + 1 + RunLen(Drop(frag, d + 1), WhiteSpace)]
    ELSE NoFrag

\* ^(?P<desc>[^,]+?)\s*,\s* : the shortest description before the first comma
PlainDescPrefix(frag) == PlainDescOf(frag, RunLen(frag, CharsOf(frag) \ {","}))

WithDesc(desc, r) ==
    IF r.ok THEN [ok |-> TRUE, desc |-> desc, pos |-> r.pos, rest |-> r.rest]
    ELSE NoFrag

DescThenPos(frag, p) ==
    IF p.ok THEN WithDesc(p.desc, PosRest(frag, p.at)) ELSE NoFrag

\* PAREN_DESC_THEN_POS_RE
MatchParenDescThenPos(frag) == DescThenPos(frag, ParenDescPrefix(frag))

\* DESC_THEN_POS_RE
MatchDescThenPos(frag) == DescThenPos(frag, PlainDescPrefix(frag))

\* INLINE_POS_RE
MatchInlinePos(frag) == PosRest(frag, 0)

\* (?P<rest>.+)$ after the prefix p: what follows the whitespace after the
\* comma, or the last whitespace character when nothing else follows
ParenDescRest(frag, p) ==
    IF ~p.ok THEN NoFrag
    ELSE IF p.at < Len(frag)
         THEN [ok |-> TRUE, desc |-> p.desc, rest |-> Drop(frag, p.at)]
    ELSE IF Ch(frag, Len(frag)) \in WhiteSpace
         THEN [ok |-> TRUE, desc |-> p.desc, rest |-> Ch(frag, Len(frag))]
    ELSE NoFrag

\* PAREN_DESC_RE
MatchParenDesc(frag) == ParenDescRest(frag, ParenDescPrefix(frag))

KeepNonEmpty(x) == IF x = "" THEN <<>> ELSE <<x>>

\* [p.strip(cs) for p in parts if p.strip(cs)]
RECURSIVE StripKeep(_, _)
StripKeep(parts, cs) ==
    IF Len(parts) = 0 THEN <<>>
    ELSE KeepNonEmpty(strip(parts[1], cs)) \o StripKeep(Tail(parts), cs)

\* lines 87-88: if t.endswith("."): t = t[:-1].rstrip()
DropFinalPeriod(t) ==
    IF t # "" /\ Ch(t, Len(t)) = "."
    THEN rstrip(Take(t, Len(t) - 1), WhiteSpace)
    ELSE t

split_by_semicolons(text) ==
    StripKeep(split_on(DropFinalPeriod(strip(text, WhiteSpace)), ";"),
              {" ", ";"})

split_csv_like(text) == StripKeep(split_on(text, ","), {" ", ","})

\* the list items of a matched rest: rest.strip().rstrip(".")
RestItems(rest) == split_csv_like(rstrip(strip(rest, WhiteSpace), {"."}))

\* text.rsplit(",", 1), k characters following the last comma
RSplitAt(text, k) ==
    <<Take(text, Len(text) - k - 1), Drop(text, Len(text) - k)>>

RSplitComma(text) == RSplitAt(text, RunLenEnd(text, CharsOf(text) \ {","}))

PosAbbrevs == {"a", "adj", "adv", "n", "v", "prep", "conj", "intj", "pron", "pr"}

\* POS_TOKEN_IN_LEFT_RE.search(left): \b, an abbreviation in any case, a period
HasPosToken(left) ==
    \E i \in 1..Len(left) : \E w \in PosAbbrevs :
        /\ i + Len(w) <= Len(left)
        /\ lower(SubSeq(left, i, i + Len(w) - 1)) = w
        /\ Ch(left, i + Len(w)) = "."
        /\ (i = 1 \/ Ch(left, i - 1) \notin WordChar)

\* ord(c) < 128: every character of the input alphabet is ASCII
Ascii == CharsOf(CodeOrder)

\* lines 98-113 with the comma count and the stripped sides of the rsplit;
\* <<>> is None
PairOf(commas, left, right) ==
    IF commas = 0 THEN <<>>
    ELSE IF commas >= 3 THEN <<>>
    ELSE IF HasPosToken(left) THEN <<>>
    ELSE IF ~(CharsOf(left) \subseteq Ascii /\ CharsOf(left) \cap Letter # {})
         THEN <<>>
    ELSE IF right = "" THEN <<>>
    ELSE <<left, right>>

PairFrom(commas, parts) ==
    PairOf(commas, strip(parts[1], WhiteSpace), strip(parts[2], WhiteSpace))

english_xh_pair_safe(fragment) ==
    PairFrom(count(fragment, ","), RSplitComma(fragment))

---------------------------------------------------------------------------
(* Dictionary Builder: the entry store *)

Sense(tok, desc, xh) ==
    [syntax |-> tok, description |-> desc, translation |-> [xh |-> xh]]

\* for xh in items: for tok in pos_toks: senses_here.append(...)
RECURSIVE SensesOfItem(_, _, _)
SensesOfItem(xh, pos_toks, desc) ==
    IF Len(pos_toks) = 0 THEN <<>>
    ELSE <<Sense(pos_toks[1], desc, xh)>>
         \o SensesOfItem(xh, Tail(pos_toks), desc)

RECURSIVE SensesFor(_, _, _)
SensesFor(items, pos_toks, desc) ==
    IF Len(items) = 0 THEN <<>>
    ELSE SensesOfItem(items[1], pos_toks, desc)
         \o SensesFor(Tail(items), pos_toks, desc)

\* f"word_{idx}" and f"sense_{k}"
WordKey(k) == "word_" \o str(k)
SenseKey(k) == "sense_" \o str(k)

\* idx += 1
NextIdxStuck(k) == k
NextIdx(k) == k + 1

Keys(out) == {out[i].key : i \in DOMAIN out}

\* output[key]
Get(out, key) == out[CHOOSE i \in DOMAIN out : out[i].key = key].obj

\* output[key] = obj: a new key goes to the end, a present key keeps its place
Store(out, key, obj) ==
    IF key \in Keys(out)
    THEN [i \in DOMAIN out |->
             IF out[i].key = key THEN [key |-> key, obj |-> obj] ELSE out[i]]
    ELSE Append(out, [key |-> key, obj |-> obj])

\* obj[name] = value
SetItem(obj, name, value) == (name :> value) @@ obj

\* lines 133-135: k = 1; while f"sense_{k}" in obj: k += 1
FirstFreeOverwriting(obj) ==
    LET k == CHOOSE k \in 1..(Cardinality(DOMAIN obj) + 1) :
                 /\ SenseKey(k) \notin DOMAIN obj
                 /\ \A j \in 1..(k - 1) : SenseKey(j) \in DOMAIN obj
    IN  IF k > 1 THEN k - 1 ELSE k
FirstFree(obj) ==
    CHOOSE k \in 1..(Cardinality(DOMAIN obj) + 1) :
        /\ SenseKey(k) \notin DOMAIN obj
        /\ \A j \in 1..(k - 1) : SenseKey(j) \in DOMAIN obj

\* lines 136-138: for s in senses: obj[f"sense_{k}"] = s; k += 1
RECURSIVE PutSenses(_, _, _)
PutSenses(obj, k, senses) ==
    IF Len(senses) = 0 THEN obj
    ELSE PutSenses(SetItem(obj, SenseKey(k), senses[1]), k + 1, Tail(senses))

AppendTo(out, to_key, obj, senses) ==
    Store(out, to_key, PutSenses(obj, FirstFree(obj), senses))

append_senses(out, to_key, senses) ==
    AppendTo(out, to_key, Get(out, to_key), senses)

\* lines 218-220: the object of a new entry
NewEntry(head, senses) == PutSenses(("word_name" :> head), 1, senses)

\* lines 203-206: the object the fallback pair rule stores
PairEntry(en_word, xh_word) ==
    ("word_name" :> en_word) @@ ("sense_1" :> Sense("", "", xh_word))

DerivSuffixesWithoutEd == {"ing", "er", "ers", "ment", "ments"}
_DERIV_SUFFIXES == {"ed", "ing", "er", "ers", "ment", "ments"}

\* prev_head is Optional[str]
is_derivative_of(prev_head, this_head) ==
    IF prev_head = <<>> \/ prev_head = <<"">> THEN FALSE
    ELSE LET p == lower(prev_head[1])
             t == lower(this_head)
         IN  /\ Len(t) >= Len(p)
             /\ Take(t, Len(p)) = p
             /\ Drop(t, Len(p)) \in _DERIV_SUFFIXES

---------------------------------------------------------------------------
(* Dictionary Builder: one iteration of the loop over blocks *)

\* what one fragment yields: the senses it adds to senses_here, or the pair
\* (<<>> is None) of the fallback rule
Yield(ss) == [senses |-> ss, pair |-> <<>>]

\* lines 198-207: the fallback English, Xhosa pair
FragRule6(pair) == [senses |-> <<>>, pair |-> pair]

\* the pair rule tried before the plain list
FragRule5PairFirst(frag, header_pos_tokens, plain_items) ==
    IF english_xh_pair_safe(frag) # <<>>
    THEN FragRule6(english_xh_pair_safe(frag))
    ELSE IF Len(plain_items) > 0
         THEN Yield(SensesFor(plain_items, header_pos_tokens, ""))
         ELSE FragRule6(<<>>)

\* lines 190-196: a plain list under the header's parts of speech
FragRule5(frag, header_pos_tokens, plain_items) ==
    IF Len(plain_items) > 0
    THEN Yield(SensesFor(plain_items, header_pos_tokens, ""))
    ELSE FragRule6(english_xh_pair_safe(frag))

\* lines 181-188: a parenthetical description and a list
FragRule4(frag, header_pos_tokens, mp) ==
    IF mp.ok
    THEN Yield(SensesFor(RestItems(mp.rest), header_pos_tokens,
                         strip(mp.desc, WhiteSpace)))
    ELSE FragRule5(frag, header_pos_tokens,
                   split_csv_like(rstrip(frag, {"."})))

\* lines 172-179: parts of speech at the start of the fragment
FragRule3(frag, header_pos_tokens, mip) ==
    IF mip.ok
    THEN Yield(SensesFor(RestItems(mip.rest), pos_tokens_from_raw(mip.pos), ""))
    ELSE FragRule4(frag, header_pos_tokens, MatchParenDesc(frag))

\* lines 162-170: a description, then parts of speech
FragRule2(frag, header_pos_tokens, mdn) ==
    IF mdn.ok
    THEN Yield(SensesFor(RestItems(mdn.rest), pos_tokens_from_raw(mdn.pos),
                         strip(mdn.desc, WhiteSpace)))
    ELSE FragRule3(frag, header_pos_tokens, MatchInlinePos(frag))

\* lines 152-160: a parenthetical description, then parts of speech
FragRule1(frag, header_pos_tokens, mdp) ==
    IF mdp.ok
    THEN Yield(SensesFor(RestItems(mdp.rest), pos_tokens_from_raw(mdp.pos),
                         strip(mdp.desc, WhiteSpace)))
    ELSE FragRule2(frag, header_pos_tokens, MatchDescThenPos(frag))

\* lines 152-207 for one fragment: the first rule that matches
FragYield(frag, header_pos_tokens) ==
    FragRule1(frag, header_pos_tokens, MatchParenDescThenPos(frag))

\* what the fragments of a body yield, in order
RECURSIVE FragYields(_, _)
FragYields(frags, header_pos_tokens) ==
    IF Len(frags) = 0 THEN <<>>
    ELSE <<FragYield(frags[1], header_pos_tokens)>>
         \o FragYields(Tail(frags), header_pos_tokens)

\* lines 150-151: if body: for frag in split_by_semicolons(body)
BodyYields(body, header_pos_tokens) ==
    IF body # "" THEN FragYields(split_by_semicolons(body), header_pos_tokens)
    ELSE <<>>

\* lines 144-146 for the match m
ParseOf(m) ==
    IF ~m.matched THEN [matched |-> FALSE, head |-> "", yields |-> <<>>]
    ELSE [matched |-> TRUE, head |-> m.head,
          yields |-> BodyYields(
                         strip(IF m.has_body THEN m.body ELSE "", WhiteSpace),
                         pos_tokens_from_raw(m.pos))]

\* lines 141-207 without the store: the header and what the fragments yield
BlockParse(b) == ParseOf(match_entry(b))

\* the effect of a fragment on senses_here, output and idx (held by acc)
ApplyYield(acc, y) ==
    IF y.pair # <<>>
    THEN [acc EXCEPT
             !.out = Store(acc.out, WordKey(acc.idx),
                           PairEntry(y.pair[1], y.pair[2])),
             !.idx = NextIdx(acc.idx)]
    ELSE [acc EXCEPT !.senses = acc.senses \o y.senses]

RECURSIVE ApplyYields(_, _)
ApplyYields(acc, ys) ==
    IF Len(ys) = 0 THEN acc
    ELSE ApplyYields(ApplyYield(acc, ys[1]), Tail(ys))

\* lines 210-211
ShouldMerge(head) ==
    /\ Ch(head, 1) \in Lower
    /\ last_main_head # <<>> /\ last_main_head # <<"">>
    /\ is_derivative_of(last_main_head, head)

\* line 214: should_merge and last_main_key
Merges(head) == ShouldMerge(head) /\ last_main_key # <<>>

BlockPool == {
    "play, v. i. dlala;",
    "played, v. i. dlalwe;",
    "walk, v.",
    "walked, v. hambile, hambe.",
    "Play, n. umdlalo; (game), v. t. dlala",
    "player, n. umdlali; a. n. x",
    "not an entry",
    "pay, v. hlawula; ,",
    "payment, n. (money), intlawulo",
    "Pay, v. debt, n. ityala",
    "good, a. n. lunga, hle, ntle" }

ExpanderIdle ==
    /\ script = ""
    /\ src = ""
    /\ en2xh = <<>>
    /\ max_key_len = 1
    /\ max_out = 0
    /\ toks = <<>>
    /\ segs = <<>>
    /\ variants = <<>>
    /\ pc = "idle"

InitBuilder == BuilderIdle /\ ExpanderIdle /\ GlueIdle

\* the parse of every block of the pool
ParseTable == [b \in BlockPool |-> BlockParse(b)]

\* senses_here, output and idx at line 209, for the parse p of the block
AtPlacement(p) ==
    ApplyYields([senses |-> <<>>, out |-> output, idx |-> idx], p.yields)

\* line 142: a block that matches no header pattern is skipped
SkipBlock(b) ==
    /\ blocks_done < MaxBlocks
    /\ ~ParseTable[b].matched
    /\ block' = b
    /\ placed' = "skipped"
    /\ blocks_done' = blocks_done + 1
    /\ UNCHANGED <<output, idx, last_main_key, last_main_head, senses_here>>
    /\ UNCHANGED <<expanderVars, glueVars>>

\* lines 214-215: the senses go to the last main entry
Merge(b, head, acc) ==
    /\ Len(acc.senses) > 0
    /\ Merges(head)
    /\ output' = append_senses(acc.out, last_main_key[1], acc.senses)
    /\ idx' = acc.idx
    /\ senses_here' = acc.senses
    /\ block' = b
    /\ placed' = "merged"
    /\ blocks_done' = blocks_done + 1
    /\ UNCHANGED <<last_main_key, last_main_head>>
    /\ UNCHANGED <<expanderVars, glueVars>>

MergeBlock(b) ==
    /\ blocks_done < MaxBlocks
    /\ ParseTable[b].matched
    /\ Merge(b, ParseTable[b].head, AtPlacement(ParseTable[b]))

\* lines 216-223: a new entry, which becomes the last main entry
Create(b, head, acc) ==
    /\ Len(acc.senses) > 0
    /\ ~Merges(head)
    /\ output' = Store(acc.out, WordKey(acc.idx), NewEntry(head, acc.senses))
    /\ idx' = NextIdx(acc.idx)
    /\ last_main_key' = <<WordKey(acc.idx)>>
    /\ last_main_head' = <<head>>
    /\ senses_here' = acc.senses
    /\ block' = b
    /\ placed' = "created"
    /\ blocks_done' = blocks_done + 1
    /\ UNCHANGED <<expanderVars, glueVars>>

CreateEntry(b) ==
    /\ blocks_done < MaxBlocks
    /\ ParseTable[b].matched
    /\ Create(b, ParseTable[b].head, AtPlacement(ParseTable[b]))

\* lines 224-226: no senses parsed, only the last main head changes
NoteHead(b, head, acc) ==
    /\ Len(acc.senses) = 0
    /\ output' = acc.out
    /\ idx' = acc.idx
    /\ last_main_head' = <<head>>
    /\ senses_here' = <<>>
    /\ block' = b
    /\ placed' = "nosenses"
    /\ blocks_done' = blocks_done + 1
    /\ UNCHANGED last_main_key
    /\ UNCHANGED <<expanderVars, glueVars>>

NoSenses(b) ==
    /\ blocks_done < MaxBlocks
    /\ ParseTable[b].matched
    /\ NoteHead(b, ParseTable[b].head, AtPlacement(ParseTable[b]))

NextBuilder ==
    \E b \in BlockPool :
        SkipBlock(b) \/ MergeBlock(b) \/ CreateEntry(b) \/ NoSenses(b)

SpecBuilder == InitBuilder /\ [][NextBuilder]_vars

---------------------------------------------------------------------------
(* Dictionary Builder: the loop body on one block with an arbitrary body *)

\* the pieces bodies are made of, and their concatenations
FragPieces == {"a", "Bo", ",", " ", ".", ";", "n. ", "(x)"}

RECURSIVE BodiesUpTo(_)
BodiesUpTo(n) ==
    IF n = 0 THEN {""}
    ELSE LET shorter == BodiesUpTo(n - 1)
         IN  shorter \cup {t \o q : t \in shorter, q \in FragPieces}

\* lines 141-226 for the first block b of a run, p its parse: there is no
\* last main entry yet, so its senses make a new entry
FirstBlock(b, p) ==
    /\ blocks_done = 0
    /\ p.matched
    /\ \/ Create(b, p.head, AtPlacement(p))
       \/ NoteHead(b, p.head, AtPlacement(p))

NextOneBlock ==
    \E body \in BodiesUpTo(MaxFragPieces) :
        FirstBlock("go, v. " \o body, BlockParse("go, v. " \o body))

SpecOneBlock == InitBuilder /\ [][NextOneBlock]_vars

---------------------------------------------------------------------------
(* Dictionary Builder: glue_blocks *)

looks_like_entry_start(line) == match_entry(line).matched

\* line 74: cur += " " + line.strip()
ContinueUnstripped(cur, line) == cur \o " " \o line
Continue(cur, line) == cur \o " " \o strip(line, WhiteSpace)

\* lines 66-74 for the right-stripped line; acc holds blocks and cur
GlueLine(acc, line) ==
    IF line = "" THEN acc
    ELSE IF looks_like_entry_start(line)
         THEN [blocks |-> IF acc.cur # ""
                          THEN Append(acc.blocks, strip(acc.cur, WhiteSpace))
                          ELSE acc.blocks,
               cur |-> line]
         ELSE IF acc.cur # ""
              THEN [acc EXCEPT !.cur = Continue(acc.cur, line)]
              ELSE acc

\* lines 64-74: for raw in lines
RECURSIVE GlueLoop(_, _)
GlueLoop(acc, raws) ==
    IF Len(raws) = 0 THEN acc
    ELSE GlueLoop(GlueLine(acc, rstrip(raws[1], WhiteSpace)), Tail(raws))

\* lines 75-77
GlueEnd(acc) ==
    IF acc.cur # "" THEN Append(acc.blocks, strip(acc.cur, WhiteSpace))
    ELSE acc.blocks

glue_blocks(raws) == GlueEnd(GlueLoop([blocks |-> <<>>, cur |-> ""], raws))

LinePool == {
    "play, v. i. dlala;",
    "Walk, v.  ",
    "  dlalwe, dlalisa. ",
    "see n. umdlalo",
    " pay, v. hlawula",
    "",
    "  " }

RECURSIVE LineListsUpTo(_)
LineListsUpTo(n) ==
    IF n = 0 THEN {<<>>}
    ELSE LET shorter == LineListsUpTo(n - 1)
         IN  shorter \cup {Append(l, r) : l \in shorter, r \in LinePool}

InitGlue ==
    /\ BuilderIdle
    /\ script = "dictionary_json_maker"
    /\ src = ""
    /\ en2xh = IndexNone
    /\ max_key_len = 1
    /\ max_out = 0
    /\ toks = <<>>
    /\ segs = <<>>
    /\ variants = <<>>
    /\ pc = "glue"
    /\ lines \in LineListsUpTo(MaxLines)
    /\ blocks = <<>>

Glue ==
    /\ pc = "glue"
    /\ blocks' = glue_blocks(lines)
    /\ pc' = "glued"
    /\ UNCHANGED <<script, src, en2xh, max_key_len, max_out, toks, segs,
                   variants, lines>>
    /\ UNCHANGED builderVars

SpecGlue == InitGlue /\ [][Glue]_vars

---------------------------------------------------------------------------
(* Variant Expander: load_dict, on the store the builder writes as JSON *)

\* obj.get("word_name", "")
HeadOf(obj) == IF "word_name" \in DOMAIN obj THEN obj["word_name"] ELSE ""

\* the keys k of obj with k.startswith("sense_")
SenseNames(obj) == {k \in DOMAIN obj : Len(k) >= 6 /\ Take(k, 6) = "sense_"}

\* the key an entry's head is indexed under
KeyOfHeadRaw(en_head) == en_head
KeyOfHead(en_head) == normalize_key(en_head)

\* en2xh.setdefault(k, set()).add(xh)
SetDefaultAdd(index, k, xh) ==
    IF k \in DOMAIN index THEN [index EXCEPT ![k] = @ \cup {xh}]
    ELSE (k :> {xh}) @@ index

\* one sense: an empty xh is skipped; only_word_scramble's add_pair also
\* skips an empty key
add_pair(index, scr, en_k, xh) ==
    IF xh = "" THEN index
    ELSE IF scr = "only_word_scramble" /\ en_k = "" THEN index
    ELSE SetDefaultAdd(index, en_k, xh)

\* for k, v in obj.items(), over the sense keys still to visit
RECURSIVE LoadSenses(_, _, _, _)
LoadSenses(index, scr, obj, names) ==
    IF names = {} THEN index
    ELSE LoadSenses(add_pair(index, scr, KeyOfHead(HeadOf(obj)),
                             obj[CHOOSE k \in names : TRUE].translation.xh),
                    scr, obj, names \ {CHOOSE k \in names : TRUE})

\* for _, obj in data.items()
RECURSIVE LoadEntries(_, _, _)
LoadEntries(index, scr, data) ==
    IF Len(data) = 0 THEN index
    ELSE LoadEntries(LoadSenses(index, scr, data[1].obj,
                                SenseNames(data[1].obj)),
                     scr, Tail(data))

\* the en2xh index load_dict returns; max_key_len is MaxKeyLenOf of it
load_dict(scr, data) == LoadEntries(<<>>, scr, data)

\* entries of a dictionary JSON: a main entry with a merged derivative, an
\* entry with the same head in another case, phrases, empty translations,
\* an empty head
EntryPool == {
    ("word_name" :> "play") @@ ("sense_1" :> Sense("v", "", "dlala"))
                            @@ ("sense_2" :> Sense("v", "", "dlalwe")),
    ("word_name" :> "Play") @@ ("sense_1" :> Sense("n", "", "umdlalo")),
    ("word_name" :> "Ice  Cream")
        @@ ("sense_1" :> Sense("n", "", "i-ayisikhrim"))
        @@ ("sense_2" :> Sense("n", "", "")),
    ("word_name" :> " ice cream ") @@ ("sense_1" :> Sense("n", "", "iqhwa")),
    ("word_name" :> "walk") @@ ("sense_1" :> Sense("v", "", "")),
    ("word_name" :> "") @@ ("sense_1" :> Sense("", "", "x")) }

RECURSIVE StoresUpTo(_)
StoresUpTo(n) ==
    IF n = 0 THEN {<<>>}
    ELSE LET shorter == StoresUpTo(n - 1)
         IN  shorter \cup {Append(l, [key |-> WordKey(Len(l) + 1), obj |-> e]) :
                               l \in shorter, e \in EntryPool}

InitLoad ==
    /\ output \in StoresUpTo(MaxEntries)
    /\ idx = Len(output) + 1
    /\ last_main_key = <<>>
    /\ last_main_head = <<>>
    /\ senses_here = <<>>
    /\ block = ""
    /\ placed = "start"
    /\ blocks_done = 0
    /\ script \in Scripts
    /\ src = ""
    /\ en2xh = IndexNone
    /\ max_key_len = 1
    /\ max_out = 0
    /\ toks = <<>>
    /\ segs = <<>>
    /\ variants = <<>>
    /\ pc = "load"
    /\ GlueIdle

\* main: en2xh, max_key_len = load_dict(Path(args.dict))
LoadDict ==
    /\ pc = "load"
    /\ en2xh' = load_dict(script, output)
    /\ max_key_len' = MaxKeyLenOf(load_dict(script, output))
    /\ pc' = "loaded"
    /\ UNCHANGED <<script, src, max_out, toks, segs, variants>>
    /\ UNCHANGED <<builderVars, glueVars>>

SpecLoad == InitLoad /\ [][LoadDict]_vars

---------------------------------------------------------------------------
(* Claims about product_join (SpecJoin) *)

RECURSIVE Product(_)
Product(segments) ==
    IF Len(segments) = 0 THEN 1
    ELSE Len(segments[1]) * Product(Tail(segments))

AllNonEmpty(segments) == \A i \in DOMAIN segments : Len(segments[i]) >= 1

\* C1: for a non-empty list of non-empty segments and a cap >= 0,
\* product_join emits exactly min(cap, product of the choice counts) strings
C1_CountIsMinCapProduct ==
    (pc = "done" /\ Len(segs) >= 1 /\ AllNonEmpty(segs))
        => Len(variants) = Min(max_out, Product(segs))

\* a run that the cap truncates
C1_Witness ==
    /\ pc = "done"
    /\ Len(segs) >= 2 /\ AllNonEmpty(segs)
    /\ 0 < max_out /\ max_out < Product(segs)
    /\ Len(variants) = max_out

\* the choice indexes of the n-th tuple (n from 0) in lexicographic order,
\* the first segment slowest and the last segment fastest
RECURSIVE TupleAt(_, _)
TupleAt(segments, n) ==
    IF Len(segments) = 0 THEN <<>>
    ELSE <<(n \div Product(Tail(segments))) + 1>>
         \o TupleAt(Tail(segments), n % Product(Tail(segments)))

\* the string of one tuple of choices: lines 64-71 along one path
RECURSIVE AccOf(_, _, _)
AccOf(segments, tuple, acc) ==
    IF Len(segments) = 0 THEN acc
    ELSE AccOf(Tail(segments), Tail(tuple),
               NewAcc(acc, segments[1][tuple[1]]))

StringOfTuple(segments, tuple) == Emit(AccOf(segments, tuple, <<>>))

\* C10: product_join emits the variants in lexicographic order of the tuple
\* of per-segment choice indexes, the first segment varying slowest and the
\* last fastest, each segment's choices in their list order
C10_LexicographicOrder ==
    (pc = "done" /\ AllNonEmpty(segs))
        => \A n \in 1..Len(variants) :
               variants[n] = StringOfTuple(segs, TupleAt(segs, n - 1))

\* two segments of several choices, cut by the cap inside the second round
C10_Witness ==
    /\ pc = "done"
    /\ segs = <<<<"b", "c">>, <<"x", "y", "z">>>>
    /\ max_out = 4
    /\ variants = <<"b x", "b y", "b z", "c x">>

---------------------------------------------------------------------------
(* Claims about the expander pipeline (SpecExpand) *)

\* the three functions ran on the sentence (the line was not blank-skipped)
PipelineRan == pc = "done" /\ ~IsBlankLine

\* C7: an empty input sentence (no tokens) yields an empty sequence of
\* variants for any cap, not a sequence holding the empty string
C7_EmptySentenceNoVariants ==
    (pc = "done" /\ src = "" /\ tokenize(src) = <<>>) => variants = <<>>

IsNonWordToken(tok) == ~is_word(tok)
IsNonWordSegment(seg) == Len(seg) = 1 /\ ~is_word(seg[1])

RECURSIVE Firsts(_)
Firsts(segments) ==
    IF Len(segments) = 0 THEN <<>>
    ELSE <<segments[1][1]>> \o Firsts(Tail(segments))

\* C8: every non-word token of the sentence appears in the segments as its
\* own singleton segment, in order; none is consumed by a matched span or
\* dropped
C8_NonWordTokensKept ==
    (pc \in {"join", "done"})
        => Firsts(SelectSeq(segs, IsNonWordSegment))
               = SelectSeq(toks, IsNonWordToken)

\* no span of the sentence's tokens is a key of the index
KnownFree ==
    \A i \in 1..Len(toks) : \A L \in 1..(Len(toks) - i + 1) :
        SpanKey(toks, i, L) \notin DOMAIN en2xh

\* the tokens joined by single spaces, a token that is one of , . ; : ! ?
\* attached to the text before it
RECURSIVE Respaced(_)
Respaced(ts) ==
    IF Len(ts) = 0 THEN ""
    ELSE IF Len(ts) = 1 THEN ts[1]
    ELSE IF ts[Len(ts)] \in InlinePunct
         THEN Respaced(SubSeq(ts, 1, Len(ts) - 1)) \o ts[Len(ts)]
         ELSE Respaced(SubSeq(ts, 1, Len(ts) - 1)) \o " " \o ts[Len(ts)]

\* s without its whitespace
RECURSIVE Unspaced(_)
Unspaced(s) ==
    IF s = "" THEN ""
    ELSE (IF Ch(s, 1) \in WhiteSpace THEN "" ELSE Ch(s, 1))
         \o Unspaced(Drop(s, 1))

\* C9 as stated, for a sentence of at least one token: with no word or
\* phrase in the index and a cap >= 1, the expander emits exactly one
\* variant, the original sentence unchanged
C9_VariantIsSentenceVerbatim ==
    (PipelineRan /\ KnownFree /\ max_out >= 1 /\ Len(toks) >= 1)
        => variants = <<src>>

\* C9 amended: with no word or phrase in the index and a cap >= 1, the
\* expander emits exactly one variant: the sentence's tokens in order, joined
\* by single spaces with , . ; : ! ? attached to the preceding token; only
\* the whitespace of the sentence changes
C9_VariantIsRespacedSentence ==
    (PipelineRan /\ KnownFree /\ max_out >= 1)
        => /\ variants = <<Respaced(tokenize(src))>>
           /\ Unspaced(variants[1]) = Unspaced(src)

\* a sentence of unknown words whose spacing the expander changes
C9_Witness ==
    /\ PipelineRan /\ KnownFree /\ max_out >= 1
    /\ en2xh = IndexNone
    /\ Len(toks) >= 3
    /\ \E i \in DOMAIN toks : is_word(toks[i])
    /\ Len(variants) = 1
    /\ variants[1] # src

---------------------------------------------------------------------------
(* Claims about the dictionary builder (SpecBuilder) *)

\* the entry ids of the store, in insertion order
IdsHandedOut == {WordKey(k) : k \in 1..(idx - 1)}
IdNumber(key) == CHOOSE k \in 1..(idx - 1) : WordKey(k) = key

\* C2: every entry id is word_<k> for a k the counter has already passed,
\* so no later entry can get it again, and the ids of the store are distinct
\* and strictly increasing in the order the entries were created
C2_IdsDistinctIncreasing ==
    /\ \A i \in DOMAIN output : output[i].key \in IdsHandedOut
    /\ \A i \in DOMAIN output : \A j \in DOMAIN output :
           i < j => IdNumber(output[i].key) < IdNumber(output[j].key)

\* three entries created by three blocks
C2_Witness ==
    /\ placed = "created"
    /\ Len(output) = 3
    /\ output[3].key = "word_3"
    /\ idx = 4

\* the senses every fragment of block b yields, in order
RECURSIVE SensesOfYields(_)
SensesOfYields(ys) ==
    IF Len(ys) = 0 THEN <<>>
    ELSE ys[1].senses \o SensesOfYields(Tail(ys))

SensesOfBlock(b) == SensesOfYields(ParseTable[b].yields)

\* the number of sense keys of an entry object
SenseCount(obj) == Cardinality(DOMAIN obj \ {"word_name"})

\* obj2 is obj1 with the senses ss under the next sense keys, nothing else
\* changed
Extends(obj1, obj2, ss) ==
    /\ DOMAIN obj2 = DOMAIN obj1
           \cup {SenseKey(SenseCount(obj1) + j) : j \in 1..Len(ss)}
    /\ \A name \in DOMAIN obj1 : obj2[name] = obj1[name]
    /\ \A j \in 1..Len(ss) : obj2[SenseKey(SenseCount(obj1) + j)] = ss[j]

\* the step leaves every entry but the one under key as it was, and adds or
\* removes none
OnlyEntryChanges(key) ==
    /\ Len(output') = Len(output)
    /\ \A i \in DOMAIN output :
           /\ output'[i].key = output[i].key
           /\ output[i].key # key => output'[i] = output[i]

\* the next block's head is the main head just created plus a derivative
\* suffix, it starts with a lowercase letter, and the block has senses
DerivativeOfNewMain ==
    /\ placed = "created"
    /\ ParseTable[block'].matched
    /\ \E suf \in {"ed", "ing", "er", "ers", "ment", "ments"} :
           ParseTable[block'].head = last_main_head[1] \o suf
    /\ Ch(ParseTable[block'].head, 1) \in Lower
    /\ Len(SensesOfBlock(block')) >= 1

\* C3: when a main entry has just been created and the next block's
\* lowercase-initial head is that main head plus ed, ing, er, ers, ment or
\* ments and has at least one sense, the block's senses become further
\* sense_<n> keys of the main entry; no entry is created and no id is used
C3_DerivativeMergesIntoMain ==
    [][ DerivativeOfNewMain =>
            /\ placed' = "merged"
            /\ idx' = idx
            /\ OnlyEntryChanges(last_main_key[1])
            /\ Extends(Get(output, last_main_key[1]),
                       Get(output', last_main_key[1]),
                       SensesOfBlock(block')) ]_vars

\* played has been merged into the entry play created just before
C3_Witness ==
    /\ placed = "merged"
    /\ blocks_done = 2
    /\ block = "played, v. i. dlalwe;"
    /\ Len(output) = 1
    /\ output[1].obj["word_name"] = "play"
    /\ SenseCount(output[1].obj) > Len(senses_here)
    /\ idx = 2

\* C4 as stated: whenever the builder appends senses to an existing entry,
\* the block's lowercased head is the lowercased word_name of that entry
\* plus one of the derivative suffixes, also when a block without senses
\* lies between the two
C4_MergeTargetIsStem ==
    placed = "merged" =>
        \E suf \in {"ed", "ing", "er", "ers", "ment", "ments"} :
            lower(ParseTable[block].head)
                = lower(Get(output, last_main_key[1])["word_name"]) \o suf

\* the sense keys of obj are sense_1 .. sense_n for some n >= 1
SensesGapless(obj) ==
    /\ SenseCount(obj) >= 1
    /\ DOMAIN obj \ {"word_name"} = {SenseKey(j) : j \in 1..SenseCount(obj)}

\* C5: the sense keys of every entry are exactly sense_1 .. sense_n, n >= 1,
\* without a gap, and a merge writes the new senses at sense_(n+1) onward
\* and overwrites no sense the entry had
C5_SensesGaplessAppendOnly ==
    [][ /\ \A i \in DOMAIN output' : SensesGapless(output'[i].obj)
        /\ placed' = "merged" =>
               /\ OnlyEntryChanges(last_main_key[1])
               /\ Extends(Get(output, last_main_key[1]),
                          Get(output', last_main_key[1]),
                          senses_here') ]_vars

\* a merge into an entry that already had several senses
C5_Witness ==
    /\ placed = "merged"
    /\ Len(senses_here) >= 2
    /\ SenseCount(Get(output, last_main_key[1])) >= Len(senses_here) + 2
    /\ \A i \in DOMAIN output : SensesGapless(output[i].obj)

\* C6 as stated: the block "play, v. i. dlala;" gives one entry play with
\* exactly one sense, syntax "v i", empty description, xh dlala; a following
\* block "played, v. i. dlalwe;" adds sense_2 to it and creates no entry
C6_PlayThenPlayed ==
    /\ (blocks_done = 1 /\ block = "play, v. i. dlala;") =>
           output = <<[key |-> "word_1",
                       obj |-> ("word_name" :> "play")
                               @@ ("sense_1" :> Sense("v i", "", "dlala"))]>>
    /\ (blocks_done = 2 /\ block = "played, v. i. dlalwe;"
            /\ Len(output) >= 1 /\ output[1].obj["word_name"] = "play") =>
           output = <<[key |-> "word_1",
                       obj |-> ("word_name" :> "play")
                               @@ ("sense_1" :> Sense("v i", "", "dlala"))
                               @@ ("sense_2" :> Sense("v i", "", "dlalwe"))]>>

---------------------------------------------------------------------------
(* Further claims about product_join (SpecJoin) *)

\* the choices a tuple of choice indexes picks, one per segment
ChoicesOfTuple(segments, tuple) ==
    [i \in 1..Len(segments) |-> segments[i][tuple[i]]]

\* C11 as stated: in every emitted variant a choice that is exactly one of
\* , . ; : ! ? is attached to the text before it without a space, and all
\* other adjacent choices are joined by exactly one space
C11_PunctuationSpacing ==
    (pc = "done" /\ AllNonEmpty(segs))
        => \A n \in 1..Len(variants) :
               variants[n]
                   = Respaced(ChoicesOfTuple(segs, TupleAt(segs, n - 1)))

---------------------------------------------------------------------------
(* Further claims about the expander pipeline (SpecExpand) *)

\* the case-folded, space-joined text of tokens i .. i+L-1
SpanText(tokens, i, L) == lower(join(" ", SubSeq(tokens, i, i + L - 1)))

\* the largest L within the limits whose span text is a key, 0 if none
LongestKeyLen(tokens, index, mkl, i) ==
    LET fits == {L \in 1..Min(mkl, Len(tokens) - i + 1) :
                     SpanText(tokens, i, L) \in DOMAIN index}
    IN  IF fits = {} THEN 0
        ELSE CHOOSE L \in fits : \A K \in fits : K <= L

\* the segments of greedy longest match from position i on
RECURSIVE GreedyFrom(_, _, _, _)
GreedyFrom(tokens, index, mkl, i) ==
    IF i > Len(tokens) THEN <<>>
    ELSE IF is_word(tokens[i]) /\ LongestKeyLen(tokens, index, mkl, i) > 0
         THEN <<sorted(index[SpanText(tokens, i,
                                      LongestKeyLen(tokens, index, mkl, i))])>>
              \o GreedyFrom(tokens, index, mkl,
                            i + LongestKeyLen(tokens, index, mkl, i))
         ELSE <<<<tokens[i]>>>> \o GreedyFrom(tokens, index, mkl, i + 1)

\* C12 as stated: at each word token the segmenter takes the largest L, at
\* most max_key_len and the tokens remaining, whose case-folded space-joined
\* span text is a key, emits that key's sorted translations and advances by
\* L; without such an L it emits the token as a singleton and advances by 1
C12_GreedyLongestMatch ==
    (pc \in {"join", "done"})
        => segs = GreedyFrom(toks, en2xh, max_key_len, 1)

---------------------------------------------------------------------------
(* Further claims about the dictionary builder (SpecBuilder) *)

\* C13 as stated: a block whose header lists two parts of speech (a. n.)
\* and whose body is one fragment of three comma-separated translations
\* yields six senses, one for each pair of part of speech and translation
C13_TwoPosThreeTranslations ==
    (block = "good, a. n. lunga, hle, ntle" /\ placed = "created") =>
        /\ Len(senses_here) = 6
        /\ {senses_here[i] : i \in DOMAIN senses_here}
               = {Sense(tok, "", xh) : tok \in {"a", "n"},
                                       xh \in {"lunga", "hle", "ntle"}}

\* after a block without senses, the next block's lowercase-initial head is
\* the word_name of the last main entry plus a derivative suffix, and the
\* block has senses
DerivativeOfEarlierMain ==
    /\ placed = "nosenses"
    /\ last_main_key # <<>>
    /\ ParseTable[block'].matched
    /\ \E suf \in {"ed", "ing", "er", "ers", "ment", "ments"} :
           ParseTable[block'].head
               = Get(output, last_main_key[1])["word_name"] \o suf
    /\ Ch(ParseTable[block'].head, 1) \in Lower
    /\ Len(SensesOfBlock(block')) >= 1

\* C14 as stated: a header-matching block without senses adds no entry and
\* uses no id but sets the last main head to its own head, and it does not
\* break the merge target of a later derivative of the earlier main entry:
\* that derivative's senses still go to the earlier main entry
C14_ZeroSenseBlockBookkeeping ==
    [][ /\ placed' = "nosenses" =>
               /\ output' = output
               /\ idx' = idx
               /\ last_main_key' = last_main_key
               /\ last_main_head' = <<ParseTable[block'].head>>
        /\ DerivativeOfEarlierMain =>
               /\ placed' = "merged"
               /\ idx' = idx
               /\ Extends(Get(output, last_main_key[1]),
                          Get(output', last_main_key[1]),
                          SensesOfBlock(block')) ]_vars

---------------------------------------------------------------------------
(* Claims about glue_blocks (SpecGlue) *)

NonBlank(raw) == rstrip(raw, WhiteSpace) # ""

\* an entry-start line: it matches a header pattern once right-stripped
IsEntryStart(raw) ==
    NonBlank(raw) /\ match_entry(rstrip(raw, WhiteSpace)).matched

StartIndexes(ls) == {i \in DOMAIN ls : IsEntryStart(ls[i])}

\* the index of the k-th entry-start line
NthStart(ls, k) ==
    CHOOSE i \in StartIndexes(ls) :
        Cardinality({j \in StartIndexes(ls) : j <= i}) = k

\* the index of the first entry-start line after s, or one past the end
NextStartOrEnd(ls, s) ==
    IF \E j \in StartIndexes(ls) : j > s
    THEN CHOOSE j \in StartIndexes(ls) :
             j > s /\ \A h \in StartIndexes(ls) : h > s => j <= h
    ELSE Len(ls) + 1

\* the non-blank lines i .. e-1, stripped, each after one space
RECURSIVE Continuations(_, _, _)
Continuations(ls, i, e) ==
    IF i >= e THEN ""
    ELSE (IF NonBlank(ls[i]) THEN " " \o strip(ls[i], WhiteSpace) ELSE "")
         \o Continuations(ls, i + 1, e)

ExpectedBlock(ls, s) ==
    rstrip(ls[s], WhiteSpace)
        \o Continuations(ls, s + 1, NextStartOrEnd(ls, s))

\* C15: glue_blocks returns one block per entry-start line, in input order;
\* each block is its entry-start line followed by every later non-blank
\* line before the next entry-start line, joined by single spaces; blank
\* lines add nothing, and every block still matches a header pattern
C15_OneBlockPerEntryStart ==
    pc = "glued" =>
        /\ Len(blocks) = Cardinality(StartIndexes(lines))
        /\ \A k \in 1..Len(blocks) :
               /\ blocks[k] = ExpectedBlock(lines, NthStart(lines, k))
               /\ match_entry(blocks[k]).matched

\* two entries, the first with a blank line and an indented continuation
C15_Witness ==
    /\ pc = "glued"
    /\ lines = <<"play, v. i. dlala;", "  ", "  dlalwe, dlalisa. ",
                 "Walk, v.  ">>
    /\ blocks = <<"play, v. i. dlala; dlalwe, dlalisa.", "Walk, v.">>

---------------------------------------------------------------------------
(* Claims about load_dict (SpecLoad) *)

\* the non-empty xh translations of all senses of all entries of data whose
\* normalized word_name is k
XhsUnder(data, k) ==
    UNION {{data[i].obj[n].translation.xh : n \in SenseNames(data[i].obj)} :
               i \in {j \in DOMAIN data :
                          normalize_key(HeadOf(data[j].obj)) = k}}
        \ {""}

\* the normalized word_names that have a non-empty translation
IndexedHeads(data) ==
    {k \in {normalize_key(HeadOf(data[i].obj)) : i \in DOMAIN data} :
         XhsUnder(data, k) # {}}

\* the largest number of space-separated tokens in a key of index, 1 for an
\* empty index
MostTokens(index) ==
    IF DOMAIN index = {} THEN 1
    ELSE LET counts == {Len(split_ws(k)) : k \in DOMAIN index}
         IN  CHOOSE n \in counts : \A m \in counts : m <= n

\* what every index has: each key maps to the non-empty union of the xh of
\* the entries sharing it, and max_key_len is the most tokens of a key
KeysMapToUnions ==
    /\ \A k \in DOMAIN en2xh :
           en2xh[k] = XhsUnder(output, k) /\ en2xh[k] # {}
    /\ max_key_len = MostTokens(en2xh)

\* C16 as stated: the index maps each normalized lowercase word_name to the
\* union of the non-empty xh of all senses of all entries sharing it, every
\* key's set is non-empty, and max_key_len is the largest number of tokens
\* in a key, 1 for an empty index
C16_IndexOfEveryHead ==
    pc = "loaded" =>
        /\ DOMAIN en2xh = IndexedHeads(output)
        /\ KeysMapToUnions

\* C16 amended: the same for each non-empty normalized word_name; the empty
\* one is a key in one_make_variants and is left out by only_word_scramble
C16_IndexOfEveryNonEmptyHead ==
    pc = "loaded" =>
        /\ DOMAIN en2xh
               = IF script = "only_word_scramble"
                 THEN IndexedHeads(output) \ {""}
                 ELSE IndexedHeads(output)
        /\ KeysMapToUnions

\* a merged derivative and a head in another case under one key, a phrase
\* key, an empty translation skipped
C16_Witness ==
    /\ pc = "loaded"
    /\ Len(output) = 3
    /\ en2xh = ("play" :> {"dlala", "dlalwe", "umdlalo"})
                   @@ ("ice cream" :> {"i-ayisikhrim"})
    /\ max_key_len = 2

---------------------------------------------------------------------------
(* Claims about the fallback pair rule (SpecOneBlock) *)

\* the fragments of the body of block b
BodyFragments(b) ==
    IF match_entry(b).matched /\ match_entry(b).has_body
    THEN split_by_semicolons(strip(match_entry(b).body, WhiteSpace))
    ELSE <<>>

PassesPairSafe(frag) == english_xh_pair_safe(frag) # <<>>

\* C17: the fallback pair rule never creates an entry: every fragment that
\* passes english_xh_pair_safe has a non-empty plain comma list, which rule
\* 5 consumes, so every entry of the store has as word_name the head of the
\* header-matching block it was made from
C17_PairRuleNeverFires ==
    blocks_done = 1 =>
        /\ \A i \in DOMAIN BodyFragments(block) :
               PassesPairSafe(BodyFragments(block)[i])
                   => Len(split_csv_like(
                              rstrip(BodyFragments(block)[i], {"."}))) > 0
        /\ Len(output) <= 1
        /\ \A i \in DOMAIN output :
               /\ placed = "created"
               /\ output[i].obj["word_name"] = match_entry(block).head
        /\ idx = Len(output) + 1

\* a block whose only fragment passes english_xh_pair_safe and became
\* senses of the block's own entry
C17_Witness ==
    /\ blocks_done = 1
    /\ block = "go, v. a,Bo"
    /\ english_xh_pair_safe("a,Bo") = <<"a", "Bo">>
    /\ Len(output) = 1
    /\ output[1].obj["word_name"] = "go"
    /\ SenseCount(output[1].obj) = 2

---------------------------------------------------------------------------
(* Claims about the cap of product_join (SpecJoin) *)

\* C18: truncation by the cap is a prefix: for the same segments and caps
\* c1 <= c2, product_join with cap c1 emits the first min(c1, n) of the n
\* strings it emits with cap c2, and never more than the cap
C18_TruncationIsPrefix ==
    pc = "done" =>
        /\ Len(variants) <= max_out
        /\ \A c1 \in 0..max_out :
               product_join(segs, c1)
                   = SubSeq(variants, 1, Min(c1, Len(variants)))

\* six tuples, four emitted under cap 4, and cap 2 gives the first two
C18_Witness ==
    /\ pc = "done"
    /\ segs = <<<<"x", "y", "z">>, <<"b", "c">>>>
    /\ max_out = 4
    /\ Len(variants) = 4
    /\ product_join(segs, 2) = <<variants[1], variants[2]>>
    /\ Product(segs) = 6

=============================================================================
